---- MODULE Spec2Model ----
(***************************************************************************)
(* Model of src/shader.py: ShaderRenderer.run() and the render loop of     *)
(* ShaderRenderer.run_basic_shader_example().  One action per statement    *)
(* of the two methods; every call into pygame / moderngl may raise, in     *)
(* which case control goes to the finally clause of run().  The window     *)
(* system (event queue, millisecond clock) is the environment.             *)
(***************************************************************************)
EXTENDS Integers, Sequences, FiniteSets, TLC

\* ---- bounds of the model ------------------------------------------------
MaxFrames == 3      \* loop iterations explored
MaxQueue == 2       \* events that may be pending at once
MaxJumps == 2       \* spontaneous advances of the millisecond clock
MaxAdvance == 2     \* largest single spontaneous advance, in ms

\* ---- program constants --------------------------------------------------
FrameRate == 60             \* clock.tick(60)
MsPerSecond == 1000         \* ... / 1000.0

QUIT == "QUIT"
KEYDOWN == "KEYDOWN"
EventTypes == {QUIT, KEYDOWN}

\* statements of run_basic_shader_example that call into a library
SetupSteps == {"compile", "buffer", "vao"}
LoopSteps == {"events", "clear", "uniform", "render", "flip", "tick"}
ReleaseSteps == {"release_vao", "release_buf", "release_prog"}

\* the order in which lines 151-153 release the GPU objects
ReleaseOrder == <<"vao", "quad_buffer", "prog">>

VARIABLES
    pc,            \* statement about to execute
    exc,           \* "none", or the step whose exception is propagating
    prog,          \* ShaderProgram: "unbound" | "live" | "released"
    quad_buffer,   \* GeometryBuffer
    vao,           \* DrawableObject
    running,       \* loop flag (line 126)
    start_time,    \* line 127
    current_time,  \* line 138
    time_uniform,  \* prog['time'].value on the GPU
    ticks,         \* pygame.time.get_ticks(), ms
    last_tick,     \* pygame.time.Clock's last tick, ms
    queue,         \* pygame event queue
    pygame_up,     \* windowing subsystem initialised
    frame,         \* loop iterations started
    clears,        \* ctx.clear calls
    timeLog,       \* values written to the "time" uniform, in order
    drawLog,       \* uniform value seen by each vao.render()
    clockReads,    \* clock values read at line 138, in order
    presents,      \* pygame.display.flip calls
    paces,         \* clock.tick calls
    released,      \* objects released, in order
    quits,         \* pygame.quit calls
    quitFrame,     \* iteration whose drain first saw QUIT (0: none yet)
    jumps          \* spontaneous clock advances so far

objs == <<prog, quad_buffer, vao>>
loopv == <<running, start_time, current_time>>
clockv == <<ticks, last_tick>>
gpuLog == <<clears, timeLog, drawLog, presents, released, time_uniform>>
ghost == <<clockReads, paces, quitFrame>>
vars == <<pc, exc, objs, loopv, clockv, queue, pygame_up, frame, gpuLog,
          ghost, quits, jumps>>

\* ---- pure helpers ---------------------------------------------------------
Range(s) == {s[i] : i \in 1..Len(s)}

IsPrefix(s, t) == Len(s) <= Len(t) /\ \A i \in 1..Len(s) : s[i] = t[i]

\* (now - start) / 1000.0 : seconds as the fraction <<numerator, denominator>>
ElapsedFromEpoch(now, start) == <<now, MsPerSecond>>

ElapsedSeconds(now, start) == <<now - start, MsPerSecond>>

\* for event in events: if event.type == QUIT: running = False
RECURSIVE ProcessEventsLastWins(_, _)
ProcessEventsLastWins(events, r) ==
    IF events = <<>> THEN r
    ELSE ProcessEventsLastWins(Tail(events), Head(events) # QUIT)

RECURSIVE ProcessEventsAny(_, _)
ProcessEventsAny(events, r) ==
    IF events = <<>> THEN r
    ELSE ProcessEventsAny(Tail(events), FALSE)

RECURSIVE ProcessEvents(_, _)
ProcessEvents(events, r) ==
    IF events = <<>> THEN r
    ELSE ProcessEvents(Tail(events), IF Head(events) = QUIT THEN FALSE ELSE r)

\* Clock.tick(framerate): endtime = (int)((1.0 / framerate) * 1000)
FrameDelay == MsPerSecond \div FrameRate

\* an exception raised by `step` unwinds to the finally clause of run()
Raise(step) == /\ pc' = "finally"
               /\ exc' = step

Init ==
    /\ pc = "compile"
    /\ exc = "none"
    /\ prog = "unbound"
    /\ quad_buffer = "unbound"
    /\ vao = "unbound"
    /\ running = FALSE
    /\ start_time = 0
    /\ current_time = <<>>
    /\ time_uniform = <<0, MsPerSecond>>
    /\ ticks = 0
    /\ last_tick = 0
    /\ queue = <<>>
    /\ pygame_up = TRUE
    /\ frame = 0
    /\ clears = 0
    /\ timeLog = <<>>
    /\ drawLog = <<>>
    /\ clockReads = <<>>
    /\ presents = 0
    /\ paces = 0
    /\ released = <<>>
    /\ quits = 0
    /\ quitFrame = 0
    /\ jumps = 0

\* ---- environment ----------------------------------------------------------
\* the window system delivers an event
PostEvent ==
    /\ pygame_up
    /\ frame < MaxFrames
    /\ Len(queue) < MaxQueue
    /\ \E e \in EventTypes : queue' = Append(queue, e)
    /\ UNCHANGED <<pc, exc, objs, loopv, clockv, pygame_up, frame, gpuLog,
                   ghost, quits, jumps>>

\* wall-clock time passes between two statements
AdvanceClock ==
    /\ pc # "done"
    /\ jumps < MaxJumps
    /\ \E d \in 1..MaxAdvance : ticks' = ticks + d
    /\ jumps' = jumps + 1
    /\ UNCHANGED <<pc, exc, objs, loopv, last_tick, queue, pygame_up, frame,
                   gpuLog, ghost, quits>>

\* ---- setup, lines 110-127 -------------------------------------------------
\* an alternative in which a failed compile is ignored
CreateShaderProgramIgnoreFailure ==
    /\ pc = "compile"
    /\ \E ok \in BOOLEAN :
         /\ prog' = IF ok THEN "live" ELSE prog
         /\ pc' = "buffer"
         /\ exc' = exc
    /\ UNCHANGED <<quad_buffer, vao, loopv, clockv, queue, pygame_up, frame,
                   gpuLog, ghost, quits, jumps>>

CreateShaderProgram ==
    /\ pc = "compile"
    /\ \E ok \in BOOLEAN :
         IF ok THEN /\ prog' = "live"
                    /\ pc' = "buffer"
                    /\ exc' = exc
               ELSE /\ Raise("compile")
                    /\ prog' = prog
    /\ UNCHANGED <<quad_buffer, vao, loopv, clockv, queue, pygame_up, frame,
                   gpuLog, ghost, quits, jumps>>

CreateQuadBuffer ==
    /\ pc = "buffer"
    /\ \E ok \in BOOLEAN :
         IF ok THEN /\ quad_buffer' = "live"
                    /\ pc' = "vao"
                    /\ exc' = exc
               ELSE /\ Raise("buffer")
                    /\ quad_buffer' = quad_buffer
    /\ UNCHANGED <<prog, vao, loopv, clockv, queue, pygame_up, frame,
                   gpuLog, ghost, quits, jumps>>

CreateVertexArray ==
    /\ pc = "vao"
    /\ \E ok \in BOOLEAN :
         IF ok THEN /\ vao' = "live"
                    /\ pc' = "loop_init"
                    /\ exc' = exc
               ELSE /\ Raise("vao")
                    /\ vao' = vao
    /\ UNCHANGED <<prog, quad_buffer, loopv, clockv, queue, pygame_up, frame,
                   gpuLog, ghost, quits, jumps>>

\* clock = Clock(); running = True; start_time = get_ticks()
LoopInit ==
    /\ pc = "loop_init"
    /\ last_tick' = ticks
    /\ running' = TRUE
    /\ start_time' = ticks
    /\ pc' = "loop_test"
    /\ UNCHANGED <<exc, objs, current_time, ticks, queue, pygame_up, frame,
                   gpuLog, ghost, quits, jumps>>

\* ---- render loop, lines 129-148 --------------------------------------------
\* while running:
LoopTest ==
    /\ pc = "loop_test"
    /\ IF running
         THEN /\ frame < MaxFrames
              /\ frame' = frame + 1
              /\ pc' = "events"
         ELSE /\ frame' = frame
              /\ pc' = "release_vao"
    /\ UNCHANGED <<exc, objs, loopv, clockv, queue, pygame_up, gpuLog, ghost,
                   quits, jumps>>

\* an alternative in which a quit event leaves the loop at once (break)
PollEventsBreak ==
    /\ pc = "events"
    /\ \E ok \in BOOLEAN :
         IF ok THEN /\ queue' = <<>>
                    /\ running' = ProcessEvents(queue, running)
                    /\ quitFrame' = IF quitFrame = 0 /\ QUIT \in Range(queue)
                                      THEN frame ELSE quitFrame
                    /\ pc' = IF running' THEN "clear" ELSE "release_vao"
                    /\ exc' = exc
               ELSE /\ Raise("events")
                    /\ UNCHANGED <<queue, running, quitFrame>>
    /\ UNCHANGED <<objs, start_time, current_time, clockv, pygame_up, frame,
                   gpuLog, clockReads, paces, quits, jumps>>

\* an alternative in which any event at all stops the loop
PollEventsAnyStops ==
    /\ pc = "events"
    /\ \E ok \in BOOLEAN :
         IF ok THEN /\ queue' = <<>>
                    /\ running' = ProcessEventsAny(queue, running)
                    /\ quitFrame' = IF quitFrame = 0 /\ QUIT \in Range(queue)
                                      THEN frame ELSE quitFrame
                    /\ pc' = "clear"
                    /\ exc' = exc
               ELSE /\ Raise("events")
                    /\ UNCHANGED <<queue, running, quitFrame>>
    /\ UNCHANGED <<objs, start_time, current_time, clockv, pygame_up, frame,
                   gpuLog, clockReads, paces, quits, jumps>>

\* for event in pygame.event.get(): if event.type == pygame.QUIT: running = False
PollEvents ==
    /\ pc = "events"
    /\ \E ok \in BOOLEAN :
         IF ok THEN /\ queue' = <<>>
                    /\ running' = ProcessEvents(queue, running)
                    /\ quitFrame' = IF quitFrame = 0 /\ QUIT \in Range(queue)
                                      THEN frame ELSE quitFrame
                    /\ pc' = "clear"
                    /\ exc' = exc
               ELSE /\ Raise("events")
                    /\ UNCHANGED <<queue, running, quitFrame>>
    /\ UNCHANGED <<objs, start_time, current_time, clockv, pygame_up, frame,
                   gpuLog, clockReads, paces, quits, jumps>>

\* self.ctx.clear(0.0, 0.0, 0.0)
ClearScreen ==
    /\ pc = "clear"
    /\ \E ok \in BOOLEAN :
         IF ok THEN /\ clears' = clears + 1
                    /\ pc' = "time"
                    /\ exc' = exc
               ELSE /\ Raise("clear")
                    /\ clears' = clears
    /\ UNCHANGED <<objs, loopv, clockv, queue, pygame_up, frame, timeLog,
                   drawLog, presents, released, time_uniform, ghost, quits,
                   jumps>>

\* current_time = (pygame.time.get_ticks() - start_time) / 1000.0
SampleTime ==
    /\ pc = "time"
    /\ current_time' = ElapsedSeconds(ticks, start_time)
    /\ clockReads' = Append(clockReads, ticks)
    /\ pc' = "uniform"
    /\ UNCHANGED <<exc, objs, running, start_time, clockv, queue, pygame_up,
                   frame, gpuLog, paces, quitFrame, quits, jumps>>

\* prog['time'].value = current_time
WriteUniform ==
    /\ pc = "uniform"
    /\ \E ok \in BOOLEAN :
         IF ok THEN /\ time_uniform' = current_time
                    /\ timeLog' = Append(timeLog, current_time)
                    /\ pc' = "render"
                    /\ exc' = exc
               ELSE /\ Raise("uniform")
                    /\ UNCHANGED <<time_uniform, timeLog>>
    /\ UNCHANGED <<objs, loopv, clockv, queue, pygame_up, frame, clears,
                   drawLog, presents, released, ghost, quits, jumps>>

\* vao.render()
RenderQuad ==
    /\ pc = "render"
    /\ \E ok \in BOOLEAN :
         IF ok THEN /\ drawLog' = Append(drawLog, time_uniform)
                    /\ pc' = "flip"
                    /\ exc' = exc
               ELSE /\ Raise("render")
                    /\ drawLog' = drawLog
    /\ UNCHANGED <<objs, loopv, clockv, queue, pygame_up, frame, clears,
                   timeLog, presents, released, time_uniform, ghost, quits,
                   jumps>>

\* an alternative in which the frame is presented but never paced
FlipSkipTick ==
    /\ pc = "flip"
    /\ \E ok \in BOOLEAN :
         IF ok THEN /\ presents' = presents + 1
                    /\ pc' = "loop_test"
                    /\ exc' = exc
               ELSE /\ Raise("flip")
                    /\ presents' = presents
    /\ UNCHANGED <<objs, loopv, clockv, queue, pygame_up, frame, clears,
                   timeLog, drawLog, released, time_uniform, ghost, quits,
                   jumps>>

\* pygame.display.flip()
Flip ==
    /\ pc = "flip"
    /\ \E ok \in BOOLEAN :
         IF ok THEN /\ presents' = presents + 1
                    /\ pc' = "tick"
                    /\ exc' = exc
               ELSE /\ Raise("flip")
                    /\ presents' = presents
    /\ UNCHANGED <<objs, loopv, clockv, queue, pygame_up, frame, clears,
                   timeLog, drawLog, released, time_uniform, ghost, quits,
                   jumps>>

\* clock.tick(60): sleep until FrameDelay ms have passed since the last tick
Tick ==
    /\ pc = "tick"
    /\ \E ok \in BOOLEAN :
         IF ok THEN /\ ticks' = IF ticks - last_tick < FrameDelay
                                  THEN last_tick + FrameDelay ELSE ticks
                    /\ last_tick' = ticks'
                    /\ paces' = paces + 1
                    /\ pc' = "loop_test"
                    /\ exc' = exc
               ELSE /\ Raise("tick")
                    /\ UNCHANGED <<ticks, last_tick, paces>>
    /\ UNCHANGED <<objs, loopv, queue, pygame_up, frame, gpuLog, clockReads,
                   quitFrame, quits, jumps>>

\* ---- teardown, lines 150-153 and 161-163 ----------------------------------
\* an alternative in which the program is released first
ReleaseVaoProgFirst ==
    /\ pc = "release_vao"
    /\ \E ok \in BOOLEAN :
         IF ok THEN /\ prog' = "released"
                    /\ released' = Append(released, "prog")
                    /\ pc' = "release_buf"
                    /\ exc' = exc
               ELSE /\ Raise("release_vao")
                    /\ UNCHANGED <<prog, released>>
    /\ UNCHANGED <<vao, quad_buffer, loopv, clockv, queue, pygame_up, frame,
                   clears, timeLog, drawLog, presents, time_uniform, ghost,
                   quits, jumps>>

\* vao.release()
ReleaseVao ==
    /\ pc = "release_vao"
    /\ \E ok \in BOOLEAN :
         IF ok THEN /\ vao' = "released"
                    /\ released' = Append(released, "vao")
                    /\ pc' = "release_buf"
                    /\ exc' = exc
               ELSE /\ Raise("release_vao")
                    /\ UNCHANGED <<vao, released>>
    /\ UNCHANGED <<prog, quad_buffer, loopv, clockv, queue, pygame_up, frame,
                   clears, timeLog, drawLog, presents, time_uniform, ghost,
                   quits, jumps>>

\* quad_buffer.release()
ReleaseQuadBuffer ==
    /\ pc = "release_buf"
    /\ \E ok \in BOOLEAN :
         IF ok THEN /\ quad_buffer' = "released"
                    /\ released' = Append(released, "quad_buffer")
                    /\ pc' = "release_prog"
                    /\ exc' = exc
               ELSE /\ Raise("release_buf")
                    /\ UNCHANGED <<quad_buffer, released>>
    /\ UNCHANGED <<prog, vao, loopv, clockv, queue, pygame_up, frame,
                   clears, timeLog, drawLog, presents, time_uniform, ghost,
                   quits, jumps>>

\* prog.release(); run_basic_shader_example returns
ReleaseProg ==
    /\ pc = "release_prog"
    /\ \E ok \in BOOLEAN :
         IF ok THEN /\ prog' = "released"
                    /\ released' = Append(released, "prog")
                    /\ pc' = "finally"
                    /\ exc' = exc
               ELSE /\ Raise("release_prog")
                    /\ UNCHANGED <<prog, released>>
    /\ UNCHANGED <<vao, quad_buffer, loopv, clockv, queue, pygame_up, frame,
                   clears, timeLog, drawLog, presents, time_uniform, ghost,
                   quits, jumps>>

\* an alternative without the finally clause: quit only on a normal return
PygameQuitNoFinally ==
    /\ pc = "finally"
    /\ pygame_up' = (exc # "none")
    /\ quits' = IF exc = "none" THEN quits + 1 ELSE quits
    /\ pc' = "done"
    /\ UNCHANGED <<exc, objs, loopv, clockv, queue, frame, gpuLog, ghost,
                   jumps>>

\* finally: pygame.quit(); a propagating exception is re-raised to the caller
PygameQuit ==
    /\ pc = "finally"
    /\ pygame_up' = FALSE
    /\ quits' = quits + 1
    /\ pc' = "done"
    /\ UNCHANGED <<exc, objs, loopv, clockv, queue, frame, gpuLog, ghost,
                   jumps>>

\* ---- specification --------------------------------------------------------
\* one statement of renderer.run()
Step ==
    \/ CreateShaderProgram
    \/ CreateQuadBuffer
    \/ CreateVertexArray
    \/ LoopInit
    \/ LoopTest
    \/ PollEvents
    \/ ClearScreen
    \/ SampleTime
    \/ WriteUniform
    \/ RenderQuad
    \/ Flip
    \/ Tick
    \/ ReleaseVao
    \/ ReleaseQuadBuffer
    \/ ReleaseProg
    \/ PygameQuit

Next ==
    \/ PostEvent
    \/ AdvanceClock
    \/ CreateShaderProgram
    \/ CreateQuadBuffer
    \/ CreateVertexArray
    \/ LoopInit
    \/ LoopTest
    \/ PollEvents
    \/ ClearScreen
    \/ SampleTime
    \/ WriteUniform
    \/ RenderQuad
    \/ Flip
    \/ Tick
    \/ ReleaseVao
    \/ ReleaseQuadBuffer
    \/ ReleaseProg
    \/ PygameQuit

Spec == Init /\ [][Next]_vars

\* the single thread keeps executing statements
FairSpec == Spec /\ WF_vars(Step)

TypeOK ==
    /\ pc \in {"compile", "buffer", "vao", "loop_init", "loop_test", "events",
               "clear", "time", "uniform", "render", "flip", "tick",
               "release_vao", "release_buf", "release_prog", "finally", "done"}
    /\ exc \in {"none"} \cup SetupSteps \cup LoopSteps \cup ReleaseSteps
    /\ {prog, quad_buffer, vao} \subseteq {"unbound", "live", "released"}
    /\ running \in BOOLEAN
    /\ pygame_up \in BOOLEAN
    /\ frame \in 0..MaxFrames
    /\ Len(queue) <= MaxQueue

\* ---- properties ------------------------------------------------------------
AllReleased == vao = "released" /\ quad_buffer = "released" /\ prog = "released"

\* the while loop was left through its test, not through an exception
LoopExited ==
    \/ pc \in ReleaseSteps
    \/ pc \in {"finally", "done"} /\ exc \in {"none"} \cup ReleaseSteps

\* C1: in every execution of run(), normal or exceptional, pygame.quit is
\* called exactly once, and after it no clear, uniform write, draw, present
\* or release happens: it is the last operation of the run.
C1_QuitOnceAndLast ==
    /\ [](/\ quits <= 1
          /\ pygame_up = (quits = 0)
          /\ (pc = "done") = (quits = 1))
    /\ [][quits > 0 => UNCHANGED <<pc, exc, objs, gpuLog, paces, quits>>]_vars

C1_Witness == pc = "done" /\ quits = 1 /\ exc = "render" /\ presents = 1

\* C2: on every exit path of the render loop, also when an exception is
\* raised inside an iteration, all three GPU objects have been released
\* before the windowing subsystem is shut down.
C2_ReleasedOnEveryLoopExit ==
    (~pygame_up /\ frame > 0) => AllReleased

\* C3: the releases that occur are ordered vao, quad_buffer, prog and precede
\* the shutdown; no object is released twice, out of order or after pygame.quit.
C3_DestructionOrder ==
    /\ [](/\ IsPrefix(released, ReleaseOrder)
          /\ (quad_buffer = "released" => vao = "released")
          /\ (prog = "released" => quad_buffer = "released")
          /\ (vao = "released") = (Len(released) >= 1)
          /\ (quad_buffer = "released") = (Len(released) >= 2)
          /\ (prog = "released") = (Len(released) >= 3))
    /\ [][~pygame_up => UNCHANGED <<objs, released>>]_vars

C3_Witness == released = ReleaseOrder /\ ~pygame_up /\ AllReleased

\* C4 as stated: with a quit event queued before the first iteration the loop
\* performs zero draw calls, and teardown releases the three objects once
\* each in the order vao, quad_buffer, prog.
C4_ZeroDrawsOnEarlyQuit ==
    (quitFrame = 1 /\ exc = "none") =>
        /\ Len(drawLog) = 0
        /\ (pc = "done" => released = ReleaseOrder)

\* C4 amended: with a quit event queued before the first iteration and no
\* step raising, the loop runs exactly one iteration and so performs exactly
\* one draw call, and teardown releases the three objects once each in the
\* order vao, quad_buffer, prog.
C4_OneDrawOnEarlyQuit ==
    /\ (quitFrame = 1 => frame = 1 /\ Len(drawLog) <= 1)
    /\ (quitFrame = 1 /\ exc = "none" /\ pc = "done") =>
           /\ Len(drawLog) = 1
           /\ presents = 1
           /\ released = ReleaseOrder

C4_Witness == quitFrame = 1 /\ exc = "none" /\ pc = "done" /\ Len(drawLog) = 1

\* C5: the iteration whose drain sees the quit event completes in full, the
\* drain consumes every pending event, no further iteration begins, the flag
\* is tested only at the top of the loop and is never set back to running.
C5_QuitCompletesFrame ==
    /\ [](/\ (quitFrame > 0 => ~running /\ frame = quitFrame)
          /\ (LoopExited =>
                /\ quitFrame = frame
                /\ clears = frame
                /\ Len(timeLog) = frame
                /\ Len(drawLog) = frame
                /\ presents = frame
                /\ paces = frame))
    /\ [][/\ (pc = "events" /\ pc' = "clear" => queue' = <<>>)
          /\ (pc' = "release_vao" => pc \in {"loop_test", "release_vao"})
          /\ (pc \in LoopSteps \cup {"time"} /\ exc' = "none" =>
                pc' \in LoopSteps \cup {"time", "loop_test"})
          /\ (quitFrame > 0 => ~running')]_vars

C5_Witness ==
    pc = "release_vao" /\ quitFrame = 2 /\ Len(drawLog) = 2 /\ paces = 2

\* C6: the "time" uniform receives, one write per frame and in order, the
\* elapsed seconds between the clock value sampled before the loop and the
\* clock value read in that frame; each draw uses the value written in its own
\* iteration, and after N iterations there are N writes and N draws.
C6_TimeUniformValues ==
    /\ Len(timeLog) <= Len(clockReads)
    /\ \A i \in 1..Len(timeLog) :
          /\ Len(timeLog[i]) = 2
          /\ timeLog[i][2] > 0
          /\ timeLog[i][1] * MsPerSecond
                = (clockReads[i] - start_time) * timeLog[i][2]
    /\ IsPrefix(drawLog, timeLog)
    /\ Len(timeLog) - Len(drawLog) <= 1
    /\ (pc = "loop_test" =>
          /\ Len(clockReads) = frame
          /\ Len(timeLog) = frame
          /\ Len(drawLog) = frame)

C6_Witness ==
    /\ pc = "loop_test"
    /\ frame = 3
    /\ Len(drawLog) = 3
    /\ start_time > 0
    /\ drawLog[2][1] > drawLog[1][1]
    /\ drawLog[3][1] > drawLog[2][1] + FrameDelay

\* C7: a failed shader compilation aborts the run before the loop: no
\* iteration, clear, draw or present happens, and run() propagates the error.
C7_CompileFailureAborts ==
    (prog = "unbound" /\ pc # "compile") =>
        /\ pc \in {"finally", "done"}
        /\ exc = "compile"
        /\ frame = 0
        /\ clears = 0
        /\ Len(drawLog) = 0
        /\ presents = 0

C7_Witness == pc = "done" /\ exc = "compile" /\ ~pygame_up /\ prog = "unbound"

\* C8: when a setup step fails, every GPU object created before the failure
\* is released before the windowing subsystem is shut down.
C8_SetupFailureReleases ==
    (~pygame_up /\ exc \in SetupSteps) =>
        "live" \notin {prog, quad_buffer, vao}

\* C9: each iteration clears, writes the uniform, draws, presents and paces
\* in that order, so the counts never get out of step, and at every iteration
\* boundary all of them equal the number of completed iterations.
C9_StepOrder ==
    /\ frame >= clears
    /\ clears >= Len(timeLog)
    /\ Len(timeLog) >= Len(drawLog)
    /\ Len(drawLog) >= presents
    /\ presents >= paces
    /\ paces >= frame - 1
    /\ (pc = "loop_test" =>
          /\ clears = frame
          /\ Len(timeLog) = frame
          /\ Len(drawLog) = frame
          /\ presents = frame
          /\ paces = frame)
    /\ (pc = "render" => clears = frame /\ Len(timeLog) = frame)
    /\ (pc = "flip" => Len(drawLog) = frame)
    /\ (pc = "tick" => presents = frame)

C9_Witness == pc = "loop_test" /\ frame = 2 /\ paces = 2 /\ running

\* C10: the loop starts RUNNING and, absent errors, is left only after a quit
\* event was drained; once a quit event is in the queue the run eventually
\* ends with the windowing subsystem shut down and, absent errors, with the
\* loop STOPPED and the three GPU objects released.
C10_QuitStopsLoop ==
    /\ [](/\ (pc = "loop_test" /\ frame = 0 => running)
          /\ (LoopExited => quitFrame > 0 /\ ~running))
    /\ (QUIT \in Range(queue)) ~>
          (/\ pc = "done"
           /\ ~pygame_up
           /\ (exc = "none" => ~running /\ released = ReleaseOrder))

C10_Witness ==
    /\ pc = "done"
    /\ exc = "none"
    /\ quitFrame = 3
    /\ ~running
    /\ ~pygame_up
    /\ released = ReleaseOrder

====
